---- MODULE Spec2Model ----
(***************************************************************************)
(* The analysis engine of backend/app/main.py: extract_keywords,           *)
(* extract_bullet_points, heuristic_analysis and ai_analysis, with the     *)
(* module-level configuration (OPENAI_API_KEY, STOP_WORDS) they read.      *)
(*                                                                         *)
(* A Python str is a sequence of one-character strings, so that lower(),   *)
(* the tokenizer's regular expression, strip(), startswith(), slicing and  *)
(* substring tests are computed character by character.  The one non-ASCII *)
(* character of the source, the bullet U+2022, is written "BULLET", and a  *)
(* backquote "BACKTICK".                                                   *)
(* A float is an integer number of thousandths (50.0 is 50000).            *)
(***************************************************************************)
EXTENDS Integers, Sequences, FiniteSets, TLC

VARIABLES
    OPENAI_API_KEY,   \* module-level credential (main.py:31)
    STOP_WORDS,       \* module-level stop-word table (main.py:33-62)
    pc,               \* per request handler: position inside ai_analysis / heuristic_analysis
    request,          \* per handler: the AnalyzeRequest being analysed
    llm_calls,        \* per handler: llm.invoke calls issued for the current request
    response,         \* per handler: what llm.invoke returned
    jd_keywords,      \* per handler: local of heuristic_analysis
    resume_keywords,  \* per handler: local of heuristic_analysis
    matched,          \* per handler: local of heuristic_analysis
    missing,          \* per handler: local of heuristic_analysis
    score,            \* per handler: local of heuristic_analysis
    result,           \* per handler: the MatchResult returned (NoResult before)
    terminal,         \* per handler: "ParsedResult" | "Heuristic" | "Raised" | "none"
    kw_text,          \* extract_keywords called on its own: argument text
    kw_max,           \* ... argument max_keywords
    kw_out,           \* ... returned list
    kw_pc             \* ... "call" before the call, "ret" after

vars == <<OPENAI_API_KEY, STOP_WORDS, pc, request, llm_calls, response, jd_keywords,
          resume_keywords, matched, missing, score, result, terminal,
          kw_text, kw_max, kw_out, kw_pc>>

(***************************************************************************)
(* Bounds of the model.                                                    *)
(***************************************************************************)
\* Request handlers that run at the same time in ConcSpec.
NumHandlers == 2
\* Words per generated text in KwSpec.
MaxWords == 3

Handlers == 1..NumHandlers

(***************************************************************************)
(* Characters and str methods.                                             *)
(***************************************************************************)
UpperLetters == <<"A","B","C","D","E","F","G","H","I","J","K","L","M","N","O","P","Q","R","S","T","U","V",
      "W","X","Y","Z">>
LowerLetters == <<"a","b","c","d","e","f","g","h","i","j","k","l","m","n","o","p","q","r","s","t","u","v",
      "w","x","y","z">>
Digits == <<"0","1","2","3","4","5","6","7","8","9">>

Range(s) == {s[i] : i \in DOMAIN s}

IndexOf(s, c) == CHOOSE i \in DOMAIN s : s[i] = c

IsUpper(c) == c \in Range(UpperLetters)
IsLower(c) == c \in Range(LowerLetters)
IsLetter(c) == IsUpper(c) \/ IsLower(c)
IsDigit(c) == c \in Range(Digits)
\* The whitespace str.strip() strips and \s matches, among the characters modelled.
Whitespace == {" ", "\t", "\n", "\r"}
IsSpace(c) == c \in Whitespace

LowerChar(c) == IF IsUpper(c) THEN LowerLetters[IndexOf(UpperLetters, c)] ELSE c
UpperChar(c) == IF IsLower(c) THEN UpperLetters[IndexOf(LowerLetters, c)] ELSE c

\* str.lower()
lower(s) == [i \in DOMAIN s |-> LowerChar(s[i])]

\* str.title(): a letter that follows a non-letter is upper-cased, any other lower-cased.
title(s) ==
    [i \in DOMAIN s |->
        IF i = 1 \/ ~IsLetter(s[i - 1]) THEN UpperChar(s[i]) ELSE LowerChar(s[i])]

Min(a, b) == IF a < b THEN a ELSE b
Max(a, b) == IF a > b THEN a ELSE b

\* s[:n]
Take(s, n) == SubSeq(s, 1, Min(n, Len(s)))
\* s[n:]  (n counted from 0, as in Python)
Drop(s, n) == SubSeq(s, n + 1, Len(s))

\* s.startswith(p)
startswith(s, p) == Len(p) <= Len(s) /\ SubSeq(s, 1, Len(p)) = p

\* p in s  (substring)
contains(s, p) == \E i \in 0..(Len(s) - Len(p)) : SubSeq(s, i + 1, i + Len(p)) = p

\* s.lstrip(chars): drops the leading characters that are in chars.
lstrip(s, chars) ==
    LET n == CHOOSE n \in 0..Len(s) :
                 /\ \A k \in 1..n : s[k] \in chars
                 /\ (n = Len(s) \/ s[n + 1] \notin chars)
    IN Drop(s, n)

\* s.rstrip(chars)
rstrip(s, chars) ==
    LET n == CHOOSE n \in 0..Len(s) :
                 /\ \A k \in (n + 1)..Len(s) : s[k] \in chars
                 /\ (n = 0 \/ s[n] \notin chars)
    IN Take(s, n)

\* s.strip()
strip(s) == rstrip(lstrip(s, Whitespace), Whitespace)

RECURSIVE split(_, _)
\* s.split(sep) for a one-character sep: the piece before the first sep, then the
\* pieces of what follows it.
split(s, sep) ==
    IF sep \notin Range(s) THEN <<s>>
    ELSE LET at == CHOOSE i \in DOMAIN s : s[i] = sep /\ \A k \in 1..(i - 1) : s[k] # sep
         IN <<SubSeq(s, 1, at - 1)>> \o split(Drop(s, at), sep)

RECURSIVE Concat(_)
\* "".join(parts)
Concat(parts) == IF parts = << >> THEN << >> ELSE Head(parts) \o Concat(Tail(parts))

(***************************************************************************)
(* STOP_WORDS (main.py:33-62).                                             *)
(***************************************************************************)
StopWordsTable ==
    {<<"t","h","e">>,
      <<"a","n","d">>,
      <<"f","o","r">>,
      <<"w","i","t","h">>,
      <<"t","h","a","t">>,
      <<"t","h","i","s">>,
      <<"a","r","e">>,
      <<"w","a","s">>,
      <<"w","e","r","e">>,
      <<"f","r","o","m">>,
      <<"h","a","v","e">>,
      <<"h","a","s">>,
      <<"h","a","d">>,
      <<"y","o","u">>,
      <<"y","o","u","r">>,
      <<"t","h","e","i","r">>,
      <<"o","u","r">>,
      <<"a","b","o","u","t">>,
      <<"i","n","t","o">>,
      <<"o","v","e","r">>,
      <<"s","u","c","h">>,
      <<"u","s","i","n","g">>,
      <<"b","a","s","e","d">>,
      <<"s","k","i","l","l","s">>,
      <<"e","x","p","e","r","i","e","n","c","e">>,
      <<"j","o","b">>,
      <<"r","o","l","e">>,
      <<"r","e","s","p","o","n","s","i","b","i","l","i","t","i","e","s">>}

(***************************************************************************)
(* extract_keywords (main.py:65-70).                                       *)
(***************************************************************************)
\* [A-Za-z0-9+#\-.]
IsTokenChar(c) == IsLetter(c) \/ IsDigit(c) \/ c \in {"+", "#", "-", "."}

\* The end of the greedy match of [A-Za-z][A-Za-z0-9+#\-.]* that starts at i.
MatchEnd(t, i) ==
    CHOOSE j \in i..Len(t) :
        /\ \A k \in (i + 1)..j : IsTokenChar(t[k])
        /\ (j = Len(t) \/ ~IsTokenChar(t[j + 1]))

RECURSIVE findall_from(_, _)
\* re.findall scans left to right: the next match starts at the first letter at or
\* after i, and the scan resumes behind it; matches do not overlap.
findall_from(t, i) ==
    IF \A k \in i..Len(t) : ~IsLetter(t[k]) THEN << >>
    ELSE LET s == CHOOSE s \in i..Len(t) :
                      IsLetter(t[s]) /\ \A k \in i..(s - 1) : ~IsLetter(t[k])
             j == MatchEnd(t, s)
         IN <<SubSeq(t, s, j)>> \o findall_from(t, j + 1)

\* re.findall(r"[A-Za-z][A-Za-z0-9+#\-.]*", t)
findall(t) == findall_from(t, 1)

\* w for w in words if len(w) > 2 and w not in STOP_WORDS
KeepWord(w, stop_words) == Len(w) > 2 /\ w \notin stop_words

RECURSIVE Dedupe(_)
\* The keys of a dict filled from s, in insertion order.
Dedupe(s) ==
    IF s = << >> THEN << >>
    ELSE LET init == Dedupe(SubSeq(s, 1, Len(s) - 1))
             last == s[Len(s)]
         IN IF last \in Range(init) THEN init ELSE Append(init, last)

Occurrences(s, w) == Cardinality({i \in DOMAIN s : s[i] = w})

\* collections.Counter(iterable): keys in first-seen order, each with its count.
Counter(s) == [keys |-> Dedupe(s), count |-> [w \in Range(s) |-> Occurrences(s, w)]]

\* One step of the stable descending sort: w goes after every element already placed
\* (all of them seen earlier) whose count is not smaller.
SortedInsert(sorted, w, count) ==
    LET before == {p \in 1..Len(sorted) : count[sorted[p]] >= count[w]}
        at == IF before = {} THEN 0 ELSE CHOOSE p \in before : \A q \in before : q <= p
    IN SubSeq(sorted, 1, at) \o <<w>> \o SubSeq(sorted, at + 1, Len(sorted))

RECURSIVE SortedByCount(_, _)
\* sorted(items, key=count, reverse=True): stable, so equal counts keep insertion order.
SortedByCount(keys, count) ==
    IF keys = << >> THEN << >>
    ELSE SortedInsert(SortedByCount(SubSeq(keys, 1, Len(keys) - 1), count),
                      keys[Len(keys)], count)

\* most_common without the sort: the first n keys in insertion order.
most_commonMutant(c, n) ==
    IF n <= 0 THEN << >> ELSE Take(c.keys, n)

\* Counter.most_common(n), which is heapq.nlargest(n, items, key=count):
\* the first n of the stable descending sort, nothing for n <= 0.
most_common(c, n) ==
    IF n <= 0 THEN << >> ELSE Take(SortedByCount(c.keys, c.count), n)

extract_keywords(text, max_keywords, stop_words) ==
    LET words == findall(lower(text))
        counts == Counter(SelectSeq(words, LAMBDA w : KeepWord(w, stop_words)))
    IN most_common(counts, max_keywords)

(***************************************************************************)
(* extract_bullet_points (main.py:73-88).                                  *)
(***************************************************************************)
BulletMarkers == {"BULLET", "-", "*"}

ActionVerbs ==
    {<<"d","e","v","e","l","o","p","e","d">>,
      <<"c","r","e","a","t","e","d">>,
      <<"i","m","p","l","e","m","e","n","t","e","d">>,
      <<"d","e","s","i","g","n","e","d">>,
      <<"b","u","i","l","t">>,
      <<"m","a","n","a","g","e","d">>,
      <<"l","e","d">>,
      <<"i","m","p","r","o","v","e","d">>,
      <<"o","p","t","i","m","i","z","e","d">>}

\* The body of the loop over lines: the bullets (none or one) a line contributes.
BulletsOfLine(line) ==
    LET stripped == strip(line)
        bullet == strip(lstrip(stripped, BulletMarkers))
    IN IF stripped # << >> /\ stripped[1] \in BulletMarkers
       THEN IF Len(bullet) > 10 THEN <<bullet>> ELSE << >>
       ELSE IF /\ stripped # << >>
               /\ Len(stripped) > 20
               /\ ~IsUpper(stripped[1])
               /\ ~startswith(stripped, <<" ">>)
               /\ \E verb \in ActionVerbs : startswith(lower(stripped), verb)
            THEN <<stripped>>
            ELSE << >>

RECURSIVE BulletsOfLines(_)
BulletsOfLines(lines) ==
    IF lines = << >> THEN << >>
    ELSE BulletsOfLine(Head(lines)) \o BulletsOfLines(Tail(lines))

extract_bullet_points(text) == Take(BulletsOfLines(split(text, "\n")), 15)

(***************************************************************************)
(* heuristic_analysis (main.py:91-184).                                    *)
(***************************************************************************)
\* round(a / b): to the nearest integer, a tie to the even one (b > 0, a >= 0).
RoundHalfEven(a, b) ==
    LET q == a \div b
        r == a % b
    IN IF 2 * r < b THEN q
       ELSE IF 2 * r > b THEN q + 1
       ELSE IF q % 2 = 0 THEN q ELSE q + 1

\* matched = [k for k in jd_keywords if k in resume_keywords]
MatchedOf(jd, rk) == SelectSeq(jd, LAMBDA k : k \in rk)
\* missing = [k for k in jd_keywords if k not in resume_keywords]
MissingOf(jd, rk) == SelectSeq(jd, LAMBDA k : k \notin rk)

\* coverage = len(matched) / max(len(jd_keywords), 1); score = round(coverage * 100, 1),
\* in thousandths.  With at most 40 job-description keywords the float round() sees is
\* on the same side of every tie as the exact quotient, and an exact tie (a multiple
\* of 1/16) goes to the even neighbour.
ScoreOf(m, jd) == 100 * RoundHalfEven(1000 * Len(m), Max(Len(jd), 1))

\* f"Instead of: \"{bullet[:80]}{'...' if len(bullet) > 80 else ''}\"\n"
\* f"Use: \"{bullet[:60]} using {kw.title()} with measurable impact\""
Suggestion(bullet, kw) ==
    <<"I","n","s","t","e","a","d"," ","o","f",":"," ","\"">> \o Take(bullet, 80)
    \o (IF Len(bullet) > 80 THEN <<".",".",".">> ELSE << >>)
    \o <<"\"","\n","U","s","e",":"," ","\"">> \o Take(bullet, 60) \o <<" ","u","s","i","n","g"," ">> \o title(kw)
    \o <<" ","w","i","t","h"," ","m","e","a","s","u","r","a","b","l","e"," ","i","m","p","a","c",
      "t","\"">>

\* The loop body of main.py:107-117: the suggestions (none or one) of one bullet.
SuggestionsOfBullet(bullet, missing_kw) ==
    LET bullet_lower == lower(bullet)
        relevant_missing ==
            SelectSeq(Take(missing_kw, 3), LAMBDA kw : ~contains(bullet_lower, kw))
    IN IF relevant_missing # << >>
       THEN <<Suggestion(bullet, relevant_missing[1])>>
       ELSE << >>

RECURSIVE SuggestionsOfBullets(_, _)
SuggestionsOfBullets(bullets, missing_kw) ==
    IF bullets = << >> THEN << >>
    ELSE SuggestionsOfBullet(Head(bullets), missing_kw)
         \o SuggestionsOfBullets(Tail(bullets), missing_kw)

FallbackRecommendation ==
    <<"I","n","s","t","e","a","d"," ","o","f",":"," ","\"","D","e","v","e","l","o","p","e","d",
      " ","a","p","p","l","i","c","a","t","i","o","n","\"","\n","U","s","e",":"," ","\"",
      "D","e","v","e","l","o","p","e","d"," ","M","E","R","N"," ","s","t","a","c","k"," ",
      "a","p","p","l","i","c","a","t","i","o","n"," ","w","i","t","h"," ","A","W","S"," ",
      "i","n","t","e","g","r","a","t","i","o","n",","," ","i","m","p","r","o","v","i","n",
      "g"," ","p","e","r","f","o","r","m","a","n","c","e"," ","b","y"," ","3","0","%","\"">>

\* The recommendations without the fallback of main.py:119-124.
RecommendationsOfMutant(resume_text, missing_kw) ==
    SuggestionsOfBullets(Take(extract_bullet_points(resume_text), 5), missing_kw)

\* main.py:101-124
RecommendationsOf(resume_text, missing_kw) ==
    LET recs == SuggestionsOfBullets(Take(extract_bullet_points(resume_text), 5), missing_kw)
    IN IF recs = << >> THEN <<FallbackRecommendation>> ELSE recs

ExampleBullet(kw) ==
    <<"E","x","a","m","p","l","e"," ","o","p","t","i","m","i","z","e","d"," ","b","u","l","l",
      "e","t",":"," ","D","e","v","e","l","o","p","e","d"," ">> \o kw
    \o <<" ","s","o","l","u","t","i","o","n"," ","t","h","a","t"," ","i","m","p","r","o","v","e",
      "d"," ","[","m","e","t","r","i","c","]"," ","b","y"," ","[","X","]","%",","," ">>
    \o <<"d","e","m","o","n","s","t","r","a","t","i","n","g"," ","e","x","p","e","r","t","i","s",
      "e"," ","i","n"," ">> \o kw
    \o <<" ","a","n","d"," ","a","l","i","g","n","m","e","n","t"," ","w","i","t","h"," ","j","o",
      "b"," ","r","e","q","u","i","r","e","m","e","n","t","s",".">>

FallbackRewrittenBullets ==
    << <<"A","d","d"," ","q","u","a","n","t","i","f","i","e","d"," ","a","c","h","i","e","v","e",
      "m","e","n","t","s"," ","(","e",".","g",".",","," ","'","I","m","p","r","o","v","e",
      "d"," ","p","e","r","f","o","r","m","a","n","c","e"," ","b","y"," ","3","0","%","'",
      ","," ","'","R","e","d","u","c","e","d"," ","c","o","s","t","s"," ","b","y"," ","$",
      "5","0","K","'",")",".">>,
       <<"I","n","c","l","u","d","e"," ","s","p","e","c","i","f","i","c"," ","t","e","c","h","n",
         "o","l","o","g","i","e","s"," ","f","r","o","m"," ","t","h","e"," ","j","o","b",
         " ","d","e","s","c","r","i","p","t","i","o","n"," ","t","h","a","t"," ","y","o",
         "u","'","v","e"," ","a","c","t","u","a","l","l","y"," ","u","s","e","d",".">> >>

\* main.py:127-139
RewrittenBulletsOf(missing_kw) ==
    LET top_missing == Take(missing_kw, 3)
        bullets == [i \in DOMAIN top_missing |-> ExampleBullet(top_missing[i])]
    IN IF bullets = << >> THEN FallbackRewrittenBullets ELSE bullets

CommonPhrases ==
    { <<"r","e","s","p","o","n","s","i","b","l","e"," ","f","o","r">>,
      <<"d","u","t","i","e","s"," ","i","n","c","l","u","d","e">>,
      <<"r","e","q","u","i","r","e","d"," ","s","k","i","l","l","s">> }

VagueWords == {<<"s","o","m","e">>,
      <<"v","a","r","i","o","u","s">>,
      <<"s","e","v","e","r","a","l">>,
      <<"m","a","n","y">>,
      <<"e","x","t","e","n","s","i","v","e">>}

CountedNouns == {<<"u","s","e","r","s">>,
      <<"c","l","i","e","n","t","s">>,
      <<"c","u","s","t","o","m","e","r","s">>,
      <<"p","r","o","j","e","c","t","s">>}

\* re.search(r'\d+%|\$\d+|\d+\s*(users|clients|customers|projects)', t)
HasNumbers(t) ==
    \E i \in DOMAIN t :
        \/ IsDigit(t[i]) /\ i < Len(t) /\ t[i + 1] = "%"
        \/ t[i] = "$" /\ i < Len(t) /\ IsDigit(t[i + 1])
        \/ /\ IsDigit(t[i])
           /\ \E j \in i..Len(t) :
                /\ \A k \in (i + 1)..j : IsSpace(t[k])
                /\ \E noun \in CountedNouns : startswith(Drop(t, j), noun)

CopiedWarning ==
    <<"W","a","r","n","i","n","g",":"," ","Y","o","u","r"," ","r","e","s","u","m","e"," ","c",
      "o","n","t","a","i","n","s"," ","p","h","r","a","s","e","s"," ","t","h","a","t"," ",
      "a","p","p","e","a","r"," ","c","o","p","i","e","d"," ","d","i","r","e","c","t","l",
      "y"," ","f","r","o","m"," ","t","h","e"," ","j","o","b"," ","d","e","s","c","r","i",
      "p","t","i","o","n","."," ","R","e","w","r","i","t","e"," ","t","h","e","s","e"," ",
      "s","e","c","t","i","o","n","s"," ","i","n"," ","y","o","u","r"," ","o","w","n"," ",
      "w","o","r","d","s"," ","w","h","i","l","e"," ","k","e","e","p","i","n","g"," ","t",
      "h","e"," ","s","a","m","e"," ","m","e","a","n","i","n","g",".">>

MetricsWarning ==
    <<"Y","o","u","r"," ","r","e","s","u","m","e"," ","l","a","c","k","s"," ","q","u","a","n",
      "t","i","f","i","a","b","l","e"," ","m","e","t","r","i","c","s"," ","(","p","e","r",
      "c","e","n","t","a","g","e","s",","," ","d","o","l","l","a","r"," ","a","m","o","u",
      "n","t","s",","," ","u","s","e","r"," ","c","o","u","n","t","s",")","."," ","A","d",
      "d"," ","s","p","e","c","i","f","i","c"," ","n","u","m","b","e","r","s"," ","t","o",
      " ","d","e","m","o","n","s","t","r","a","t","e"," ","i","m","p","a","c","t"," ","(",
      "e",".","g",".",","," ","'","i","n","c","r","e","a","s","e","d"," ","r","e","v","e",
      "n","u","e"," ","b","y"," ","2","5","%","'",","," ","'","s","e","r","v","e","d"," ",
      "1","0","K"," ","u","s","e","r","s","'",")",".">>

VagueWarning ==
    <<"R","e","p","l","a","c","e"," ","v","a","g","u","e"," ","t","e","r","m","s"," ","l","i",
      "k","e"," ","'","s","o","m","e","'",","," ","'","v","a","r","i","o","u","s","'",",",
      " ","'","s","e","v","e","r","a","l","'"," ","w","i","t","h"," ","s","p","e","c","i",
      "f","i","c"," ","n","u","m","b","e","r","s"," ","o","r"," ","c","o","n","c","r","e",
      "t","e"," ","e","x","a","m","p","l","e","s",".">>

FallbackVerificationNotes ==
    << <<"R","e","v","i","e","w"," ","a","l","l"," ","t","e","c","h","n","i","c","a","l"," ","s",
      "k","i","l","l","s"," ","l","i","s","t","e","d"," ","t","o"," ","e","n","s","u","r",
      "e"," ","y","o","u"," ","c","a","n"," ","d","i","s","c","u","s","s"," ","t","h","e",
      "m"," ","c","o","n","f","i","d","e","n","t","l","y"," ","i","n"," ","a","n"," ","i",
      "n","t","e","r","v","i","e","w",".">>,
       <<"V","e","r","i","f","y"," ","t","h","a","t"," ","a","l","l"," ","d","a","t","e","s",",",
         " ","c","o","m","p","a","n","y"," ","n","a","m","e","s",","," ","a","n","d"," ",
         "p","r","o","j","e","c","t"," ","d","e","t","a","i","l","s"," ","a","r","e"," ",
         "a","c","c","u","r","a","t","e",".">> >>

\* main.py:142-175
VerificationNotesOf(resume_text, job_description) ==
    LET resume_lower == lower(resume_text)
        jd_lower == lower(job_description)
        copied_count ==
            Cardinality({p \in CommonPhrases :
                            contains(resume_lower, p) /\ contains(jd_lower, p)})
        vague_count == Cardinality({w \in VagueWords : contains(resume_lower, w)})
        notes ==
            (IF copied_count > 2 THEN <<CopiedWarning>> ELSE << >>)
            \o (IF ~HasNumbers(resume_lower) THEN <<MetricsWarning>> ELSE << >>)
            \o (IF vague_count > 3 THEN <<VagueWarning>> ELSE << >>)
    IN IF notes = << >> THEN FallbackVerificationNotes ELSE notes

\* MatchResult(...) (main.py:16-22).
MatchResult(s, ms, mi, rec, rw, vn) ==
    [score |-> s, matched_skills |-> ms, missing_skills |-> mi,
     recommendations |-> rec, rewritten_bullets |-> rw, verification_notes |-> vn]

\* AnalyzeRequest(...) (main.py:25-27).
AnalyzeRequest(resume_text, job_description) ==
    [resume_text |-> resume_text, job_description |-> job_description]

\* heuristic_analysis as a function of its request and the stop-word table it reads.
heuristic_analysis(req, stop_words) ==
    LET jd == extract_keywords(req.job_description, 40, stop_words)
        rk == Range(extract_keywords(req.resume_text, 120, stop_words))
        m == MatchedOf(jd, rk)
        mi == MissingOf(jd, rk)
    IN MatchResult(ScoreOf(m, jd), m, mi,
                   RecommendationsOf(req.resume_text, mi),
                   RewrittenBulletsOf(mi),
                   VerificationNotesOf(req.resume_text, req.job_description))

(***************************************************************************)
(* json.loads (main.py:225), on the text of the response.                   *)
(*                                                                         *)
(* Values: a number is in thousandths with a flag for int; NaN, Infinity   *)
(* and -Infinity are accepted, as json.loads does by default.  The texts   *)
(* modelled use at most three decimals, no exponent, and among the string  *)
(* escapes only \" \\ \/ \n \t \r.                                         *)
(***************************************************************************)
JStr(s) == [t |-> "str", s |-> s]
JNum(n, isint) == [t |-> "num", n |-> n, int |-> isint]
JNull == [t |-> "null"]
JBool(b) == [t |-> "bool", b |-> b]
JNaN == [t |-> "nan"]
JInf(neg) == [t |-> "inf", neg |-> neg]
JList(items) == [t |-> "list", items |-> items]
JObj(keys, vals) == [t |-> "dict", keys |-> keys, vals |-> vals]

Punct(c) == [k |-> c]
StrTok(s) == [k |-> "str", s |-> s]
NumTok(n, isint) == [k |-> "num", n |-> n, int |-> isint]
LitTok(v) == [k |-> "lit", v |-> v]
\* Text no JSON token starts with.
Junk == [k |-> "junk"]

DigitVal(c) == IndexOf(Digits, c) - 1

RECURSIVE DigitsValue(_)
DigitsValue(ds) ==
    IF ds = << >> THEN 0
    ELSE 10 * DigitsValue(SubSeq(ds, 1, Len(ds) - 1)) + DigitVal(ds[Len(ds)])

\* The end of the run of digits that starts at i (i - 1 when there is none).
DigitsEnd(t, i) ==
    CHOOSE j \in (i - 1)..Len(t) :
        /\ \A k \in i..j : IsDigit(t[k])
        /\ (j = Len(t) \/ ~IsDigit(t[j + 1]))

Escapes == {"\"", "\\", "/", "n", "t", "r"}
Unescape(c) == IF c = "n" THEN "\n" ELSE IF c = "t" THEN "\t" ELSE IF c = "r" THEN "\r" ELSE c

\* The backslashes that directly precede position p, not before position from.
BackslashesBefore(t, from, p) ==
    LET q == CHOOSE q \in (from - 1)..(p - 1) :
                 /\ \A k \in (q + 1)..(p - 1) : t[k] = "\\"
                 /\ (q = from - 1 \/ t[q] # "\\")
    IN p - 1 - q

\* The string whose opening quote precedes i: [ok, s, next].  It ends at the first
\* quote that no backslash escapes.  A raw control character or an unknown escape is
\* an error (strict mode).
ScanString(t, i) ==
    LET closing == {j \in i..Len(t) : t[j] = "\"" /\ BackslashesBefore(t, i, j) % 2 = 0}
        j == CHOOSE j \in closing : \A k \in closing : j <= k
        raw == SubSeq(t, i, j - 1)
        escapes(p) == raw[p] = "\\" /\ BackslashesBefore(raw, 1, p) % 2 = 0
        escaped(p) == p > 1 /\ escapes(p - 1)
        kept == SelectSeq([p \in DOMAIN raw |-> p], LAMBDA p : ~escapes(p))
    IN IF closing = {} THEN [ok |-> FALSE]
       ELSE IF \E p \in DOMAIN raw :
                  \/ raw[p] \in {"\n", "\t", "\r"}
                  \/ escaped(p) /\ raw[p] \notin Escapes
            THEN [ok |-> FALSE]
       ELSE [ok |-> TRUE,
             s |-> [x \in DOMAIN kept |->
                      IF escaped(kept[x]) THEN Unescape(raw[kept[x]]) ELSE raw[kept[x]]],
             next |-> j + 1]

\* -?(0|[1-9]\d*)(\.\d+)?  starting at i: [ok, n, int, next].
ScanNumber(t, i) ==
    LET neg == t[i] = "-"
        s == IF neg THEN i + 1 ELSE i
        e == DigitsEnd(t, s)
        hasFrac == e < Len(t) - 1 /\ t[e + 1] = "." /\ IsDigit(t[e + 2])
        fe == IF hasFrac THEN DigitsEnd(t, e + 2) ELSE e
        frac == IF hasFrac THEN SubSeq(t, e + 2, fe) ELSE << >>
        pad == [j \in 1..3 |-> IF j <= Len(frac) THEN frac[j] ELSE "0"]
        mag == 1000 * DigitsValue(SubSeq(t, s, e)) + DigitsValue(pad)
    IN IF e < s \/ (e > s /\ t[s] = "0") \/ Len(frac) > 3
       THEN [ok |-> FALSE]
       ELSE [ok |-> TRUE, n |-> IF neg THEN -mag ELSE mag, int |-> ~hasFrac, next |-> fe + 1]

Literals ==
    << <<"n","u","l","l">>, <<"t","r","u","e">>, <<"f","a","l","s","e">>, <<"N","a","N">>, <<"I","n","f","i","n","i","t","y">>, <<"-","I","n","f","i","n","i","t","y">> >>

JsonPunctuation == {"{", "}", "[", "]", ",", ":"}

RECURSIVE Lex(_, _)
\* The tokens of t from position i on; Junk ends the list where no token starts.
Lex(t, i) ==
    IF i > Len(t) THEN << >>
    ELSE IF t[i] \in Whitespace
         THEN Lex(t, CHOOSE j \in (i + 1)..(Len(t) + 1) :
                        /\ \A k \in i..(j - 1) : t[k] \in Whitespace
                        /\ (j = Len(t) + 1 \/ t[j] \notin Whitespace))
    ELSE IF t[i] \in JsonPunctuation THEN <<Punct(t[i])>> \o Lex(t, i + 1)
    ELSE IF t[i] = "\""
         THEN LET r == ScanString(t, i + 1)
              IN IF r.ok THEN <<StrTok(r.s)>> \o Lex(t, r.next) ELSE <<Junk>>
    ELSE IF \E l \in DOMAIN Literals : startswith(Drop(t, i - 1), Literals[l])
         THEN LET l == CHOOSE l \in DOMAIN Literals : startswith(Drop(t, i - 1), Literals[l])
              IN <<LitTok(Literals[l])>> \o Lex(t, i + Len(Literals[l]))
    ELSE IF IsDigit(t[i]) \/ t[i] = "-"
         THEN LET r == ScanNumber(t, i)
              IN IF r.ok THEN <<NumTok(r.n, r.int)>> \o Lex(t, r.next) ELSE <<Junk>>
    ELSE <<Junk>>

LitValue(v) ==
    IF v = <<"n","u","l","l">> THEN JNull
    ELSE IF v = <<"t","r","u","e">> THEN JBool(TRUE)
    ELSE IF v = <<"f","a","l","s","e">> THEN JBool(FALSE)
    ELSE IF v = <<"N","a","N">> THEN JNaN
    ELSE IF v = <<"I","n","f","i","n","i","t","y">> THEN JInf(FALSE)
    ELSE JInf(TRUE)

\* d[k] = v on a dict kept as parallel sequences: a key seen again keeps its place.
DictPut(keys, vals, k, v) ==
    IF k \in Range(keys)
    THEN [keys |-> keys, vals |-> [vals EXCEPT ![IndexOf(keys, k)] = v]]
    ELSE [keys |-> Append(keys, k), vals |-> Append(vals, v)]

KindAt(toks, i) == IF i <= Len(toks) THEN toks[i].k ELSE "end"

RECURSIVE ParseValue(_, _)
RECURSIVE ParseItems(_, _, _)
RECURSIVE ParseMembers(_, _, _, _)

\* The value that starts at token i: [ok, v, next].
ParseValue(toks, i) ==
    LET k == KindAt(toks, i) IN
    IF k = "str" THEN [ok |-> TRUE, v |-> JStr(toks[i].s), next |-> i + 1]
    ELSE IF k = "num" THEN [ok |-> TRUE, v |-> JNum(toks[i].n, toks[i].int), next |-> i + 1]
    ELSE IF k = "lit" THEN [ok |-> TRUE, v |-> LitValue(toks[i].v), next |-> i + 1]
    ELSE IF k = "["
         THEN IF KindAt(toks, i + 1) = "]"
              THEN [ok |-> TRUE, v |-> JList(<< >>), next |-> i + 2]
              ELSE ParseItems(toks, i + 1, << >>)
    ELSE IF k = "{"
         THEN IF KindAt(toks, i + 1) = "}"
              THEN [ok |-> TRUE, v |-> JObj(<< >>, << >>), next |-> i + 2]
              ELSE ParseMembers(toks, i + 1, << >>, << >>)
    ELSE [ok |-> FALSE]

ParseItems(toks, i, acc) ==
    LET r == ParseValue(toks, i) IN
    IF ~r.ok THEN [ok |-> FALSE]
    ELSE IF KindAt(toks, r.next) = "," THEN ParseItems(toks, r.next + 1, Append(acc, r.v))
    ELSE IF KindAt(toks, r.next) = "]"
         THEN [ok |-> TRUE, v |-> JList(Append(acc, r.v)), next |-> r.next + 1]
    ELSE [ok |-> FALSE]

ParseMembers(toks, i, keys, vals) ==
    IF KindAt(toks, i) # "str" \/ KindAt(toks, i + 1) # ":" THEN [ok |-> FALSE]
    ELSE LET r == ParseValue(toks, i + 2) IN
         IF ~r.ok THEN [ok |-> FALSE]
         ELSE LET d == DictPut(keys, vals, toks[i].s, r.v) IN
              IF KindAt(toks, r.next) = ","
              THEN ParseMembers(toks, r.next + 1, d.keys, d.vals)
              ELSE IF KindAt(toks, r.next) = "}"
                   THEN [ok |-> TRUE, v |-> JObj(d.keys, d.vals), next |-> r.next + 1]
                   ELSE [ok |-> FALSE]

\* The whole text must be one value: anything after it is "Extra data".
WholeValue(r, ntoks) ==
    IF r.ok /\ r.next = ntoks + 1 THEN [ok |-> TRUE, v |-> r.v] ELSE [ok |-> FALSE]

ParseTokens(toks) == WholeValue(ParseValue(toks, 1), Len(toks))

\* json.loads(text): [ok, v]; not ok is json.JSONDecodeError.
json_loads(text) == ParseTokens(Lex(text, 1))

(***************************************************************************)
(* str(x), repr(x), float(x), iteration: the coercions of main.py:224-236. *)
(***************************************************************************)
RECURSIVE NatRepr(_)
NatRepr(n) == IF n < 10 THEN <<Digits[n + 1]>> ELSE Append(NatRepr(n \div 10), Digits[(n % 10) + 1])

\* The decimals of a float with f thousandths after the point: at least one digit,
\* no trailing zero.
FracRepr(f) ==
    IF f % 100 = 0 THEN NatRepr(f \div 100)
    ELSE IF f % 10 = 0 THEN <<Digits[(f \div 100) + 1], Digits[((f \div 10) % 10) + 1]>>
    ELSE <<Digits[(f \div 100) + 1], Digits[((f \div 10) % 10) + 1], Digits[(f % 10) + 1]>>

NumRepr(n, isint) ==
    LET mag == IF n < 0 THEN -n ELSE n
        sign == IF n < 0 THEN <<"-">> ELSE << >>
    IN IF isint THEN sign \o NatRepr(mag \div 1000)
       ELSE sign \o NatRepr(mag \div 1000) \o <<".">> \o FracRepr(mag % 1000)

RECURSIVE JoinWith(_, _)
\* sep.join(parts)
JoinWith(parts, sep) ==
    IF parts = << >> THEN << >>
    ELSE IF Len(parts) = 1 THEN parts[1]
    ELSE parts[1] \o sep \o JoinWith(Tail(parts), sep)

RECURSIVE repr(_)
\* repr(x) of a value json.loads built (strings here hold no quote or backslash).
repr(v) ==
    IF v.t = "str" THEN <<"'">> \o v.s \o <<"'">>
    ELSE IF v.t = "num" THEN NumRepr(v.n, v.int)
    ELSE IF v.t = "null" THEN <<"N","o","n","e">>
    ELSE IF v.t = "bool" THEN (IF v.b THEN <<"T","r","u","e">> ELSE <<"F","a","l","s","e">>)
    ELSE IF v.t = "nan" THEN <<"n","a","n">>
    ELSE IF v.t = "inf" THEN (IF v.neg THEN <<"-","i","n","f">> ELSE <<"i","n","f">>)
    ELSE IF v.t = "list"
         THEN <<"[">> \o JoinWith([i \in DOMAIN v.items |-> repr(v.items[i])], <<","," ">>) \o <<"]">>
    ELSE <<"{">>
         \o JoinWith([i \in DOMAIN v.keys |->
                         repr(JStr(v.keys[i])) \o <<":"," ">> \o repr(v.vals[i])], <<","," ">>)
         \o <<"}">>

\* str(x)
str(v) == IF v.t = "str" THEN v.s ELSE repr(v)

\* iter(x): [ok, items]; not ok is TypeError (a number, bool or None is not iterable).
\* A str yields its characters, a dict its keys.
IterOf(v) ==
    IF v.t = "list" THEN [ok |-> TRUE, items |-> v.items]
    ELSE IF v.t = "str" THEN [ok |-> TRUE, items |-> [i \in DOMAIN v.s |-> JStr(<<v.s[i]>>)]]
    ELSE IF v.t = "dict" THEN [ok |-> TRUE, items |-> [i \in DOMAIN v.keys |-> JStr(v.keys[i])]]
    ELSE [ok |-> FALSE]

\* float(s) for a str: [ok, kind, n] with kind "fin" | "nan" | "inf" | "-inf";
\* not ok is ValueError.  Surrounding whitespace and a sign are accepted, and the
\* names nan, inf and infinity in any case.
FloatOfStr(s0) ==
    LET s == strip(s0)
        neg == s # << >> /\ s[1] = "-"
        u == IF s # << >> /\ s[1] \in {"-", "+"} THEN Tail(s) ELSE s
        e == IF u = << >> THEN 0 ELSE DigitsEnd(u, 1)
        frac == IF e < Len(u) /\ u[e + 1] = "." THEN SubSeq(u, e + 2, Len(u)) ELSE << >>
        pad == [j \in 1..3 |-> IF j <= Len(frac) THEN frac[j] ELSE "0"]
        mag == 1000 * DigitsValue(SubSeq(u, 1, e)) + DigitsValue(pad)
    IN IF lower(u) = <<"n","a","n">> THEN [ok |-> TRUE, kind |-> "nan"]
       ELSE IF lower(u) \in {<<"i","n","f">>, <<"i","n","f","i","n","i","t","y">>}
            THEN [ok |-> TRUE, kind |-> IF neg THEN "-inf" ELSE "inf"]
       ELSE IF /\ u # << >>
               /\ e + Len(frac) >= 1
               /\ (e = Len(u) \/ (u[e + 1] = "." /\ e + 1 + Len(frac) = Len(u)))
               /\ \A j \in DOMAIN frac : IsDigit(frac[j])
               /\ Len(frac) <= 3
            THEN [ok |-> TRUE, kind |-> "fin", n |-> IF neg THEN -mag ELSE mag]
       ELSE [ok |-> FALSE]

\* float(x): not ok is TypeError (None, list, dict) or ValueError (a str that is no number).
FloatOf(v) ==
    IF v.t = "num" THEN [ok |-> TRUE, kind |-> "fin", n |-> v.n]
    ELSE IF v.t = "bool" THEN [ok |-> TRUE, kind |-> "fin", n |-> IF v.b THEN 1000 ELSE 0]
    ELSE IF v.t = "nan" THEN [ok |-> TRUE, kind |-> "nan"]
    ELSE IF v.t = "inf" THEN [ok |-> TRUE, kind |-> IF v.neg THEN "-inf" ELSE "inf"]
    ELSE IF v.t = "str" THEN FloatOfStr(v.s)
    ELSE [ok |-> FALSE]

\* The score without max(0.0, min(100.0, ...)).
ClampMutant(f) == IF f.kind = "fin" THEN f.n ELSE 100000

\* max(0.0, min(100.0, score_raw)): min and max return their first argument unless the
\* second compares smaller (larger), and every comparison with NaN is false.
Clamp(f) ==
    IF f.kind = "nan" THEN 100000
    ELSE IF f.kind = "inf" THEN 100000
    ELSE IF f.kind = "-inf" THEN 0
    ELSE Max(0, Min(100000, f.n))

\* round(x, 1) of a float with n thousandths, 0 <= n <= 100000: the values it can
\* give.  x.x5 is a tie only where the float is exact (a multiple of 0.25), and the
\* even neighbour is taken; any other x.x5 falls to the side its binary value lies.
Round1(n) ==
    LET r == n % 100
        down == n - r
    IN IF r < 50 THEN {down}
       ELSE IF r > 50 THEN {down + 100}
       ELSE IF n % 250 = 0
            THEN {IF (down \div 100) % 2 = 0 THEN down ELSE down + 100}
            ELSE {down, down + 100}

(***************************************************************************)
(* ai_analysis (main.py:187-239).                                          *)
(***************************************************************************)
\* os.getenv: None when the variable is not set, else its value (main.py:31).
EnvNone == [set |-> FALSE, value |-> << >>]
EnvStr(s) == [set |-> TRUE, value |-> s]

\* bool(OPENAI_API_KEY): None and "" are falsy (main.py:192).
Truthy(key) == key.set /\ key.value # << >>

\* data.get(key, default)
DictGet(d, key, default) ==
    IF key \in Range(d.keys) THEN d.vals[IndexOf(d.keys, key)] ELSE default

\* [str(x) for x in it]: [ok, list]; not ok is the TypeError of iterating it.
StrList(it) ==
    IF it.ok THEN [ok |-> TRUE, list |-> [i \in DOMAIN it.items |-> str(it.items[i])]]
    ELSE [ok |-> FALSE]

\* [str(x) for x in data.get(key, [])]
StrListOf(data, key) == StrList(IterOf(DictGet(data, key, JList(<< >>))))

\* response.content if isinstance(response.content, str) else str(response.content)
ContentText(content) == IF content.t = "str" THEN content.s ELSE str(content)

\* main.py:228-237, once every coercion has been tried: raised if one of them raised,
\* else the MatchResults that can be built (more than one only where round() depends
\* on the float's bits).
BuildResult(score_raw, mk, mi, op, rb, vn) ==
    IF ~score_raw.ok \/ ~mk.ok \/ ~mi.ok \/ ~op.ok \/ ~rb.ok \/ ~vn.ok
    THEN [raised |-> TRUE]
    ELSE [raised |-> FALSE,
          results |-> {MatchResult(s, mk.list, mi.list, op.list, rb.list, vn.list) :
                          s \in Round1(Clamp(score_raw))}]

\* main.py:227-237 on data: data.get raises AttributeError unless data is a dict.
FromData(data) ==
    IF data.t # "dict" THEN [raised |-> TRUE]
    ELSE BuildResult(FloatOf(DictGet(data, <<"s","c","o","r","e">>, JNum(0, FALSE))),
                     StrListOf(data, <<"m","a","t","c","h","e","d","_","k","e","y","w","o","r","d","s">>),
                     StrListOf(data, <<"m","i","s","s","i","n","g","_","k","e","y","w","o","r","d","s">>),
                     StrListOf(data, <<"o","p","t","i","m","a","l","_","p","o","i","n","t","s">>),
                     StrListOf(data, <<"r","e","w","r","i","t","t","e","n","_","b","u","l","l","e","t","s">>),
                     StrListOf(data, <<"v","e","r","i","f","i","c","a","t","i","o","n","_","n","o","t","e","s">>))

\* main.py:225-237 on what json.loads gave.
FromJson(d) == IF ~d.ok THEN [raised |-> TRUE] ELSE FromData(d.v)

\* main.py:224-237 on the content llm.invoke returned.
ParsedOutcome(content) == FromJson(json_loads(ContentText(content)))

(***************************************************************************)
(* Inputs: the requests and the LLM responses the model draws from.        *)
(***************************************************************************)
Resumes ==
    << << >>,
       <<"B","u","i","l","t"," ","R","E","S","T"," ","A","P","I","s"," ","u","s","i","n","g"," ",
         "P","y","t","h","o","n"," ","a","n","d"," ","S","Q","L",".">>,
       <<"-"," ","D","e","v","e","l","o","p","e","d"," ","P","y","t","h","o","n"," ","s","e","r",
         "v","i","c","e","s"," ","f","o","r"," ","1","2"," ","c","l","i","e","n","t","s",
         "\n","-"," ","L","e","d"," ","R","e","a","c","t"," ","m","i","g","r","a","t","i",
         "o","n">>,
       <<"i","m","p","r","o","v","e","d"," ","s","o","m","e"," ","v","a","r","i","o","u","s"," ",
         "s","e","v","e","r","a","l"," ","m","a","n","y"," ","p","i","p","e","l","i","n",
         "e","s"," ","u","s","i","n","g"," ","s","q","l"," ","a","n","d"," ","p","y","t",
         "h","o","n">>,
       <<"R","e","s","p","o","n","s","i","b","l","e"," ","f","o","r"," ","A","P","I","s","."," ",
         "D","u","t","i","e","s"," ","i","n","c","l","u","d","e"," ","S","Q","L","."," ",
         "R","e","q","u","i","r","e","d"," ","s","k","i","l","l","s",":"," ","G","o",".",
         " ","G","r","e","w"," ","3","0","%">> >>

JobDescriptions ==
    << <<"t","h","e"," ","a","n","d"," ","f","o","r">>,
       <<"L","o","o","k","i","n","g"," ","f","o","r"," ","P","y","t","h","o","n",","," ","F","a",
         "s","t","A","P","I",","," ","R","e","a","c","t",","," ","a","n","d"," ","S","Q",
         "L"," ","e","x","p","e","r","i","e","n","c","e",".">>,
       <<"P","y","t","h","o","n"," ","p","y","t","h","o","n"," ","S","Q","L"," ","R","e","a","c",
         "t">>,
       << >>,
       <<"R","e","s","p","o","n","s","i","b","l","e"," ","f","o","r"," ","A","P","I","s",";"," ",
         "d","u","t","i","e","s"," ","i","n","c","l","u","d","e"," ","S","Q","L",";"," ",
         "r","e","q","u","i","r","e","d"," ","s","k","i","l","l","s",":"," ","P","y","t",
         "h","o","n">> >>

ScenarioRequest == AnalyzeRequest(Resumes[2], JobDescriptions[2])

\* The requests of Spec: every resume with every job description.
Requests ==
    {AnalyzeRequest(Resumes[r], JobDescriptions[j]) :
        r \in DOMAIN Resumes, j \in DOMAIN JobDescriptions}

\* The requests of ConcSpec.
ConcRequests ==
    {ScenarioRequest,
     AnalyzeRequest(Resumes[3], JobDescriptions[3])}

\* What llm.invoke may return as response.content: a str, or a list of content blocks.
Contents ==
    << JStr(<<"{","\"","s","c","o","r","e","\"",":"," ","7","2",".","5",","," ","\"","m","a","t","c",
      "h","e","d","_","k","e","y","w","o","r","d","s","\"",":"," ","[","\"","p","y","t","h",
      "o","n","\"","]",","," ","\"","m","i","s","s","i","n","g","_","k","e","y","w","o","r",
      "d","s","\"",":"," ","[","\"","r","e","a","c","t","\"","]",","," ","\"","o","p","t",
      "i","m","a","l","_","p","o","i","n","t","s","\"",":"," ","[","\"","I","n","s","t","e",
      "a","d"," ","o","f",":"," ","a","\\","n","U","s","e",":"," ","b","\"","]",","," ",
      "\"","r","e","w","r","i","t","t","e","n","_","b","u","l","l","e","t","s","\"",":"," ",
      "[","\"","L","e","d"," ","X","\"","]",","," ","\"","v","e","r","i","f","i","c","a",
      "t","i","o","n","_","n","o","t","e","s","\"",":"," ","[","\"","A","d","d"," ","m","e",
      "t","r","i","c","s","\"","]","}">>),
       JStr(<<"{","\"","s","c","o","r","e","\"",":"," ","8","0",","," ","\"","m","a","t","c","h","e",
         "d","_","k","e","y","w","o","r","d","s","\"",":"," ","[","\"","p","y","t","h","o",
         "n","\"",","," ","\"","s","q","l","\"","]",","," ","\"","m","i","s","s","i","n",
         "g","_","k","e","y","w","o","r","d","s","\"",":"," ","[","\"","s","q","l","\"",",",
         " ","\"","r","e","a","c","t","\"","]","}">>),
       JStr(<<"{","}">>),
       JStr(<<"{","\"","s","c","o","r","e","\"",":"," ","-","5",","," ","\"","m","a","t","c","h","e",
         "d","_","k","e","y","w","o","r","d","s","\"",":"," ","[","]","}">>),
       JStr(<<"{","\"","s","c","o","r","e","\"",":"," ","1","5","0",".","5",","," ","\"","m","i","s",
         "s","i","n","g","_","k","e","y","w","o","r","d","s","\"",":"," ","[","\"","g","o",
         "\"","]","}">>),
       JStr(<<"{","\"","s","c","o","r","e","\"",":"," ","7","2",".","4","5","6",","," ","\"","m","a",
         "t","c","h","e","d","_","k","e","y","w","o","r","d","s","\"",":"," ","[","1",",",
         " ","n","u","l","l",","," ","t","r","u","e",","," ","2",".","5",","," ","[","\"",
         "a","\"","]",","," ","{","\"","k","\"",":"," ","0","}","]","}">>),
       JStr(<<"{","\"","s","c","o","r","e","\"",":"," ","7","2",".","2","5","}">>),
       JStr(<<"{","\"","s","c","o","r","e","\"",":"," ","0",".","3","5","}">>),
       JStr(<<"{","\"","s","c","o","r","e","\"",":"," ","N","a","N","}">>),
       JStr(<<"{","\"","s","c","o","r","e","\"",":"," ","-","I","n","f","i","n","i","t","y",","," ",
         "\"","s","c","o","r","e","\"",":"," ","I","n","f","i","n","i","t","y","}">>),
       JStr(<<"{","\"","s","c","o","r","e","\"",":"," ","\""," ","8","5",".","0","4"," ","\"","}">>),
       JStr(<<"{","\"","s","c","o","r","e","\"",":"," ","\"","h","i","g","h","\"","}">>),
       JStr(<<"{","\"","s","c","o","r","e","\"",":"," ","n","u","l","l","}">>),
       JStr(<<"{","\"","s","c","o","r","e","\"",":"," ","6","0",","," ","\"","m","a","t","c","h","e",
         "d","_","k","e","y","w","o","r","d","s","\"",":"," ","\"","s","q","l","\"","}">>),
       JStr(<<"{","\"","s","c","o","r","e","\"",":"," ","6","0",","," ","\"","m","i","s","s","i","n",
         "g","_","k","e","y","w","o","r","d","s","\"",":"," ","{","\"","r","e","a","c","t",
         "\"",":"," ","1",","," ","\"","g","o","\"",":"," ","2","}","}">>),
       JStr(<<"{","\"","s","c","o","r","e","\"",":"," ","6","0",","," ","\"","o","p","t","i","m","a",
         "l","_","p","o","i","n","t","s","\"",":"," ","5","}">>),
       JStr(<<"{","\"","s","c","o","r","e","\"",":"," ","6","0",","," ","\"","v","e","r","i","f","i",
         "c","a","t","i","o","n","_","n","o","t","e","s","\"",":"," ","n","u","l","l","}">>),
       JStr(<<"BACKTICK","BACKTICK","BACKTICK","j","s","o","n","\n","{","\"","s","c","o","r","e","\"",
         ":"," ","6","0","}","\n","BACKTICK","BACKTICK","BACKTICK">>),
       JStr(<<"H","e","r","e"," ","i","s"," ","t","h","e"," ","a","n","a","l","y","s","i","s",":"," ",
         "{","\"","s","c","o","r","e","\"",":"," ","6","0","}">>),
       JStr(<<"{","\"","s","c","o","r","e","\"",":"," ","6","0",",","}">>),
       JStr(<<"{","\"","s","c","o","r","e","\"",":"," ","6","0","}"," ","{","}">>),
       JStr(<<"[","{","\"","s","c","o","r","e","\"",":"," ","6","0","}","]">>),
       JStr(<<"6","0">>),
       JStr(<< >>),
       JList(<< >>),
       JList(<<JObj(<<<<"t","y","p","e">>, <<"t","e","x","t">>>>, <<JStr(<<"t","e","x","t">>), JStr(<<"{","}">>)>>)>>) >>

\* The contents of ConcSpec: one accepted object.
ConcContents == {7}

(***************************************************************************)
(* The request handlers.  analyze_resume and analyze_resume_upload         *)
(* (main.py:258-297) call ai_analysis(request) and return its result.      *)
(* pc follows ai_analysis and, inside it, heuristic_analysis:              *)
(*   idle -> start -> construct -> invoke -> waiting -> handle -> done     *)
(*   start | construct | waiting | handle -> except -> heuristic           *)
(*   heuristic -> heur_score -> heur_build -> done -> idle                 *)
(***************************************************************************)
None == [none |-> TRUE]

\* ai_analysis(request) is entered (main.py:264, 297).
AiStart(h, reqs) ==
    /\ pc[h] = "idle"
    /\ \E req \in reqs : request' = [request EXCEPT ![h] = req]
    /\ pc' = [pc EXCEPT ![h] = "start"]
    /\ llm_calls' = [llm_calls EXCEPT ![h] = 0]
    /\ UNCHANGED <<OPENAI_API_KEY, STOP_WORDS, response, jd_keywords, resume_keywords,
                   matched, missing, score, result, terminal, kw_text, kw_max, kw_out, kw_pc>>

\* if not OPENAI_API_KEY: return heuristic_analysis(request)   (main.py:192-193)
AiNoCredential(h) ==
    /\ pc[h] = "start"
    /\ ~Truthy(OPENAI_API_KEY)
    /\ pc' = [pc EXCEPT ![h] = "heuristic"]
    /\ UNCHANGED <<OPENAI_API_KEY, STOP_WORDS, request, llm_calls, response, jd_keywords,
                   resume_keywords, matched, missing, score, result, terminal,
                   kw_text, kw_max, kw_out, kw_pc>>

\* The try block is entered (main.py:195).
AiHasCredential(h) ==
    /\ pc[h] = "start"
    /\ Truthy(OPENAI_API_KEY)
    /\ pc' = [pc EXCEPT ![h] = "construct"]
    /\ UNCHANGED <<OPENAI_API_KEY, STOP_WORDS, request, llm_calls, response, jd_keywords,
                   resume_keywords, matched, missing, score, result, terminal,
                   kw_text, kw_max, kw_out, kw_pc>>

\* llm = ChatOpenAI(model="gpt-4o-mini", temperature=0.1)   (main.py:196): the adapter
\* is built, or its constructor raises.
AiConstruct(h) ==
    /\ pc[h] = "construct"
    /\ \/ pc' = [pc EXCEPT ![h] = "invoke"]
       \/ pc' = [pc EXCEPT ![h] = "except"]
    /\ UNCHANGED <<OPENAI_API_KEY, STOP_WORDS, request, llm_calls, response, jd_keywords,
                   resume_keywords, matched, missing, score, result, terminal,
                   kw_text, kw_max, kw_out, kw_pc>>

\* llm.invoke(prompt + "\n\n" + user_block) is called (main.py:223) and blocks.  No
\* timeout is passed to ChatOpenAI or to invoke, so nothing here ends the wait.
AiInvoke(h) ==
    /\ pc[h] = "invoke"
    /\ llm_calls' = [llm_calls EXCEPT ![h] = @ + 1]
    /\ pc' = [pc EXCEPT ![h] = "waiting"]
    /\ UNCHANGED <<OPENAI_API_KEY, STOP_WORDS, request, response, jd_keywords,
                   resume_keywords, matched, missing, score, result, terminal,
                   kw_text, kw_max, kw_out, kw_pc>>

\* The LLM service answers: invoke returns a response with content Contents[c].
LlmReturns(h, cs) ==
    /\ pc[h] = "waiting"
    /\ \E c \in cs : response' = [response EXCEPT ![h] = Contents[c]]
    /\ pc' = [pc EXCEPT ![h] = "handle"]
    /\ UNCHANGED <<OPENAI_API_KEY, STOP_WORDS, request, llm_calls, jd_keywords,
                   resume_keywords, matched, missing, score, result, terminal,
                   kw_text, kw_max, kw_out, kw_pc>>

\* The LLM service fails (transport error, HTTP error, a timeout the service or the
\* network stack reports): invoke raises.
LlmRaises(h) ==
    /\ pc[h] = "waiting"
    /\ pc' = [pc EXCEPT ![h] = "except"]
    /\ UNCHANGED <<OPENAI_API_KEY, STOP_WORDS, request, llm_calls, response, jd_keywords,
                   resume_keywords, matched, missing, score, result, terminal,
                   kw_text, kw_max, kw_out, kw_pc>>

\* ai_analysis without the except clause: an exception of main.py:224-237 leaves it.
AiHandleMutant(h) ==
    /\ pc[h] = "handle"
    /\ LET o == ParsedOutcome(response[h]) IN
       IF o.raised
       THEN /\ pc' = [pc EXCEPT ![h] = "done"]
            /\ terminal' = [terminal EXCEPT ![h] = "Raised"]
            /\ UNCHANGED result
       ELSE /\ \E r \in o.results : result' = [result EXCEPT ![h] = r]
            /\ terminal' = [terminal EXCEPT ![h] = "ParsedResult"]
            /\ pc' = [pc EXCEPT ![h] = "done"]
    /\ UNCHANGED <<OPENAI_API_KEY, STOP_WORDS, request, llm_calls, response, jd_keywords,
                   resume_keywords, matched, missing, score, kw_text, kw_max, kw_out, kw_pc>>

\* main.py:224-237: the response is parsed and the MatchResult returned, or an
\* exception is raised inside the try block and control passes to the except clause.
AiHandle(h) ==
    /\ pc[h] = "handle"
    /\ LET o == ParsedOutcome(response[h]) IN
       IF o.raised
       THEN /\ pc' = [pc EXCEPT ![h] = "except"]
            /\ UNCHANGED <<result, terminal>>
       ELSE /\ \E r \in o.results : result' = [result EXCEPT ![h] = r]
            /\ terminal' = [terminal EXCEPT ![h] = "ParsedResult"]
            /\ pc' = [pc EXCEPT ![h] = "done"]
    /\ UNCHANGED <<OPENAI_API_KEY, STOP_WORDS, request, llm_calls, response, jd_keywords,
                   resume_keywords, matched, missing, score, kw_text, kw_max, kw_out, kw_pc>>

\* An except clause that calls the LLM again instead of falling back.
AiExceptMutant(h) ==
    /\ pc[h] = "except"
    /\ pc' = [pc EXCEPT ![h] = "invoke"]
    /\ UNCHANGED <<OPENAI_API_KEY, STOP_WORDS, request, llm_calls, response, jd_keywords,
                   resume_keywords, matched, missing, score, result, terminal,
                   kw_text, kw_max, kw_out, kw_pc>>

\* except Exception: return heuristic_analysis(request)   (main.py:238-239)
AiExcept(h) ==
    /\ pc[h] = "except"
    /\ pc' = [pc EXCEPT ![h] = "heuristic"]
    /\ UNCHANGED <<OPENAI_API_KEY, STOP_WORDS, request, llm_calls, response, jd_keywords,
                   resume_keywords, matched, missing, score, result, terminal,
                   kw_text, kw_max, kw_out, kw_pc>>

\* heuristic_analysis with jd_keywords kept in a variable the handlers share.
HeurKeywordsMutant(h) ==
    /\ pc[h] = "heuristic"
    /\ jd_keywords' =
          [x \in Handlers |-> extract_keywords(request[h].job_description, 40, STOP_WORDS)]
    /\ resume_keywords' =
          [resume_keywords EXCEPT
              ![h] = Range(extract_keywords(request[h].resume_text, 120, STOP_WORDS))]
    /\ pc' = [pc EXCEPT ![h] = "heur_score"]
    /\ UNCHANGED <<OPENAI_API_KEY, STOP_WORDS, request, llm_calls, response,
                   matched, missing, score, result, terminal,
                   kw_text, kw_max, kw_out, kw_pc>>

\* heuristic_analysis, main.py:92-93.
HeurKeywords(h) ==
    /\ pc[h] = "heuristic"
    /\ jd_keywords' =
          [jd_keywords EXCEPT
              ![h] = extract_keywords(request[h].job_description, 40, STOP_WORDS)]
    /\ resume_keywords' =
          [resume_keywords EXCEPT
              ![h] = Range(extract_keywords(request[h].resume_text, 120, STOP_WORDS))]
    /\ pc' = [pc EXCEPT ![h] = "heur_score"]
    /\ UNCHANGED <<OPENAI_API_KEY, STOP_WORDS, request, llm_calls, response,
                   matched, missing, score, result, terminal,
                   kw_text, kw_max, kw_out, kw_pc>>

\* heuristic_analysis, main.py:95-99.
HeurScore(h) ==
    /\ pc[h] = "heur_score"
    /\ LET m == MatchedOf(jd_keywords[h], resume_keywords[h]) IN
       /\ matched' = [matched EXCEPT ![h] = m]
       /\ missing' = [missing EXCEPT ![h] = MissingOf(jd_keywords[h], resume_keywords[h])]
       /\ score' = [score EXCEPT ![h] = ScoreOf(m, jd_keywords[h])]
    /\ pc' = [pc EXCEPT ![h] = "heur_build"]
    /\ UNCHANGED <<OPENAI_API_KEY, STOP_WORDS, request, llm_calls, response, jd_keywords,
                   resume_keywords, result, terminal, kw_text, kw_max, kw_out, kw_pc>>

\* heuristic_analysis, main.py:101-184: the three generated lists, and the return.
HeurBuild(h) ==
    /\ pc[h] = "heur_build"
    /\ result' =
          [result EXCEPT
              ![h] = MatchResult(score[h], matched[h], missing[h],
                                 RecommendationsOf(request[h].resume_text, missing[h]),
                                 RewrittenBulletsOf(missing[h]),
                                 VerificationNotesOf(request[h].resume_text,
                                                     request[h].job_description))]
    /\ terminal' = [terminal EXCEPT ![h] = "Heuristic"]
    /\ pc' = [pc EXCEPT ![h] = "done"]
    /\ UNCHANGED <<OPENAI_API_KEY, STOP_WORDS, request, llm_calls, response, jd_keywords,
                   resume_keywords, matched, missing, score, kw_text, kw_max, kw_out, kw_pc>>

\* The endpoint returns the MatchResult; the handler's locals are dropped and it can
\* take the next request.
Return(h) ==
    /\ pc[h] = "done"
    /\ pc' = [pc EXCEPT ![h] = "idle"]
    /\ request' = [request EXCEPT ![h] = None]
    /\ response' = [response EXCEPT ![h] = None]
    /\ result' = [result EXCEPT ![h] = None]
    /\ terminal' = [terminal EXCEPT ![h] = "none"]
    /\ llm_calls' = [llm_calls EXCEPT ![h] = 0]
    /\ jd_keywords' = [jd_keywords EXCEPT ![h] = << >>]
    /\ resume_keywords' = [resume_keywords EXCEPT ![h] = {}]
    /\ matched' = [matched EXCEPT ![h] = << >>]
    /\ missing' = [missing EXCEPT ![h] = << >>]
    /\ score' = [score EXCEPT ![h] = 0]
    /\ UNCHANGED <<OPENAI_API_KEY, STOP_WORDS, kw_text, kw_max, kw_out, kw_pc>>

\* The steps ai_analysis takes by itself, once entered.
Program(h) ==
    \/ AiNoCredential(h)
    \/ AiHasCredential(h)
    \/ AiConstruct(h)
    \/ AiInvoke(h)
    \/ AiHandle(h)
    \/ AiExcept(h)
    \/ HeurKeywords(h)
    \/ HeurScore(h)
    \/ HeurBuild(h)
    \/ Return(h)

(***************************************************************************)
(* extract_keywords called on its own.                                     *)
(***************************************************************************)
KwCall ==
    /\ kw_pc = "call"
    /\ kw_out' = extract_keywords(kw_text, kw_max, STOP_WORDS)
    /\ kw_pc' = "ret"
    /\ UNCHANGED <<OPENAI_API_KEY, STOP_WORDS, pc, request, llm_calls, response, jd_keywords,
                   resume_keywords, matched, missing, score, result, terminal,
                   kw_text, kw_max>>

WordPool ==
    {<<"P","y","t","h","o","n">>,
      <<"p","y","t","h","o","n">>,
      <<"S","Q","L">>,
      <<"t","h","e">>,
      <<"a","n","d">>,
      <<"f","o","r">>,
      <<"g","o">>,
      <<"s","q","l",".">>}

\* Up to MaxWords words of the pool, joined by blanks.
WordTexts ==
    {JoinWith(ws, <<" ">>) : ws \in UNION {[1..n -> WordPool] : n \in 0..MaxWords}}

ExtraTexts ==
    { <<"n","o","d","e",".","j","s",","," ","C","+","+"," ","a","n","d"," ","c","#",";"," ","3",
      "d","-","p","r","i","n","t"," ","a","1"," ","x","-","y",".","z">>,
      <<"S","Q","L",",","s","q","l",";","S","q","l","+"," ","s","q","l"," ","S","Q","L","+">>,
      <<"L","o","o","k","i","n","g"," ","f","o","r"," ","P","y","t","h","o","n",","," ","F","a",
        "s","t","A","P","I",","," ","R","e","a","c","t",","," ","a","n","d"," ","S","Q","L",
        " ","e","x","p","e","r","i","e","n","c","e",".">> }

KwTexts == WordTexts \cup ExtraTexts

KwBounds == 0..(MaxWords + 1) \cup {5, 10}

(***************************************************************************)
(* Specifications.                                                         *)
(***************************************************************************)
\* The values os.getenv("OPENAI_API_KEY") can have given: unset, empty, a key.
KeyValues == {EnvNone, EnvStr(<< >>), EnvStr(<<"s","k","-","t","e","s","t">>)}

IdleHandlers ==
    /\ pc = [h \in Handlers |-> "idle"]
    /\ request = [h \in Handlers |-> None]
    /\ llm_calls = [h \in Handlers |-> 0]
    /\ response = [h \in Handlers |-> None]
    /\ jd_keywords = [h \in Handlers |-> << >>]
    /\ resume_keywords = [h \in Handlers |-> {}]
    /\ matched = [h \in Handlers |-> << >>]
    /\ missing = [h \in Handlers |-> << >>]
    /\ score = [h \in Handlers |-> 0]
    /\ result = [h \in Handlers |-> None]
    /\ terminal = [h \in Handlers |-> "none"]

\* After import of main.py: the configuration is loaded, no request is in progress.
Init ==
    /\ OPENAI_API_KEY \in KeyValues
    /\ STOP_WORDS = StopWordsTable
    /\ IdleHandlers
    /\ kw_text = << >> /\ kw_max = 0 /\ kw_out = << >> /\ kw_pc = "off"

\* One handler, every request and every response of the model.
Next ==
    \/ AiStart(1, Requests)
    \/ LlmReturns(1, DOMAIN Contents)
    \/ LlmRaises(1)
    \/ Program(1)

Spec == Init /\ [][Next]_vars

\* Handlers running at the same time, on fewer requests and responses.
NextConc ==
    \E h \in Handlers :
        \/ AiStart(h, ConcRequests)
        \/ LlmReturns(h, ConcContents)
        \/ LlmRaises(h)
        \/ Program(h)

ConcSpec == Init /\ [][NextConc]_vars

InitKw ==
    /\ OPENAI_API_KEY = EnvNone
    /\ STOP_WORDS = StopWordsTable
    /\ IdleHandlers
    /\ kw_text \in KwTexts
    /\ kw_max \in KwBounds
    /\ kw_out = << >>
    /\ kw_pc = "call"

NextKw == KwCall

KwSpec == InitKw /\ [][NextKw]_vars

(***************************************************************************)
(* Properties.                                                             *)
(***************************************************************************)
\* What heuristic_analysis returns for the request handler h is working on, computed
\* from the request alone and the stop-word table as loaded.
HeuristicOf(h) == heuristic_analysis(request[h], StopWordsTable)

MatchResultFields ==
    {"score", "matched_skills", "missing_skills", "recommendations",
     "rewritten_bullets", "verification_notes"}

IsMatchResult(r) == DOMAIN r = MatchResultFields

Done(h) == pc[h] = "done"

\* The adapter raised: the constructor or invoke did, so there is no response.
AdapterRaised(h) == Truthy(OPENAI_API_KEY) /\ response[h] = None

\* The adapter returned text that is not JSON.
NonJsonText(h) == response[h] # None /\ ~json_loads(ContentText(response[h])).ok

\* The adapter returned, and handling the response raised.
HandlingRaised(h) == response[h] # None /\ ParsedOutcome(response[h]).raised

\* C1: with a credential configured, when the LLM adapter raised (constructor, invoke
\* or response handling) or returned text that is not JSON, ai_analysis returns a
\* MatchResult equal to the one heuristic_analysis returns for the same request (two
\* records are equal when they are equal field by field).
C1_FallbackGuarantee ==
    \A h \in Handlers :
        (Done(h) /\ Truthy(OPENAI_API_KEY)
            /\ (AdapterRaised(h) \/ NonJsonText(h) \/ HandlingRaised(h)))
        => /\ IsMatchResult(result[h])
           /\ result[h] = HeuristicOf(h)

\* C1 witness: a credential is set, the LLM returned a markdown-fenced answer (not
\* JSON), and ai_analysis has returned the heuristic result.
C1_Witness ==
    /\ Done(1) /\ Truthy(OPENAI_API_KEY)
    /\ response[1] = Contents[18]
    /\ NonJsonText(1)
    /\ result[1] = HeuristicOf(1)
    /\ request[1] = ScenarioRequest

\* C2: ai_analysis follows NoCredential -> Heuristic | HasCredential -> {Success ->
\* ParsedResult, Failure -> Heuristic}: without a credential llm.invoke is never
\* called, with one it is called at most once, a finished invocation is in exactly one
\* of the terminal states ParsedResult and Heuristic with a MatchResult, and no
\* exception reaches the caller.
C2_StateMachine ==
    \A h \in Handlers :
        /\ llm_calls[h] <= 1
        /\ ~Truthy(OPENAI_API_KEY) => llm_calls[h] = 0 /\ terminal[h] # "ParsedResult"
        /\ terminal[h] # "Raised"
        /\ Done(h) <=> terminal[h] \in {"ParsedResult", "Heuristic"}
        /\ Done(h) => IsMatchResult(result[h])
        /\ terminal[h] = "ParsedResult"
              => /\ llm_calls[h] = 1
                 /\ response[h] # None
                 /\ ~HandlingRaised(h)
        /\ (terminal[h] = "Heuristic" /\ Truthy(OPENAI_API_KEY))
              => AdapterRaised(h) \/ HandlingRaised(h)
        /\ pc[h] \in {"waiting", "handle"} => llm_calls[h] = 1

\* C2 witness: with a credential, one call was made, it succeeded, and the invocation
\* ended in ParsedResult.
C2_Witness ==
    /\ Done(1) /\ terminal[1] = "ParsedResult" /\ llm_calls[1] = 1
    /\ response[1] = Contents[1]
    /\ result[1].score = 72500

Disjoint(r) == Range(r.matched_skills) \cap Range(r.missing_skills) = {}

\* C3: in every MatchResult either analyzer returns, a ParsedResult built from any
\* JSON object of the LLM included, no string is in both matched_skills and
\* missing_skills.
C3_SetDisjointness ==
    \A h \in Handlers : Done(h) => Disjoint(result[h])

ListKeys ==
    { <<"m","a","t","c","h","e","d","_","k","e","y","w","o","r","d","s">>,
      <<"m","i","s","s","i","n","g","_","k","e","y","w","o","r","d","s">>,
      <<"o","p","t","i","m","a","l","_","p","o","i","n","t","s">>,
      <<"r","e","w","r","i","t","t","e","n","_","b","u","l","l","e","t","s">>,
      <<"v","e","r","i","f","i","c","a","t","i","o","n","_","n","o","t","e","s">> }

\* The schema the prompt asks for: an object with the six keys, a number for score and
\* a list of strings for each of the others.
Conforms(v) ==
    /\ v.t = "dict"
    /\ <<"s","c","o","r","e">> \in Range(v.keys)
    /\ DictGet(v, <<"s","c","o","r","e">>, JNull).t = "num"
    /\ \A k \in ListKeys :
          /\ k \in Range(v.keys)
          /\ DictGet(v, k, JNull).t = "list"
          /\ \A i \in DOMAIN DictGet(v, k, JNull).items : DictGet(v, k, JNull).items[i].t = "str"

\* The response of handler h is JSON; its value.
JsonResponse(h) == response[h] # None /\ json_loads(ContentText(response[h])).ok
JsonValue(h) == json_loads(ContentText(response[h])).v

\* C5: whenever the response is JSON that does not conform to the schema (an object
\* with expected keys absent, a string or an object under a list key, ...), ai_analysis
\* returns the heuristic result and nothing built from the response.
C5_NonConformingMasked ==
    \A h \in Handlers :
        (Done(h) /\ JsonResponse(h) /\ ~Conforms(JsonValue(h)))
        => terminal[h] = "Heuristic" /\ result[h] = HeuristicOf(h)

\* The number the LLM gave as score, when it gave a number.
RawScoreIsNumber(h) ==
    /\ JsonResponse(h)
    /\ JsonValue(h).t = "dict"
    /\ DictGet(JsonValue(h), <<"s","c","o","r","e">>, JNull).t = "num"
RawScore(h) == DictGet(JsonValue(h), <<"s","c","o","r","e">>, JNull).n

\* C6: on both paths the returned score is between 0.0 and 100.0 and a multiple of 0.1;
\* on the heuristic path it is round(100 * |matched| / max(|jd_keywords|, 1), 1), on the
\* parsed path a numeric score of the LLM is clamped to [0, 100] and rounded to the
\* nearest tenth.
C6_ScoreBounds ==
    \A h \in Handlers :
        Done(h) =>
            /\ result[h].score >= 0
            /\ result[h].score <= 100000
            /\ result[h].score % 100 = 0
            /\ terminal[h] = "Heuristic" =>
                  LET n == Len(extract_keywords(request[h].job_description, 40, StopWordsTable))
                      m == Len(result[h].matched_skills)
                  IN /\ 2 * (result[h].score * Max(n, 1) - 100000 * m) <= 100 * Max(n, 1)
                     /\ 2 * (100000 * m - result[h].score * Max(n, 1)) <= 100 * Max(n, 1)
            /\ (terminal[h] = "ParsedResult" /\ RawScoreIsNumber(h)) =>
                  /\ RawScore(h) <= 0 => result[h].score = 0
                  /\ RawScore(h) >= 100000 => result[h].score = 100000
                  /\ (RawScore(h) > 0 /\ RawScore(h) < 100000) =>
                        /\ result[h].score - RawScore(h) <= 50
                        /\ RawScore(h) - result[h].score <= 50

\* C6 witness: the LLM returned the score 150.5, and the ParsedResult carries 100.0.
C6_Witness ==
    /\ Done(1) /\ terminal[1] = "ParsedResult"
    /\ response[1] = Contents[5]
    /\ RawScoreIsNumber(1) /\ RawScore(1) = 150500
    /\ result[1].score = 100000

\* C7: heuristic_analysis on resume "Built REST APIs using Python and SQL." and job
\* description "Looking for Python, FastAPI, React, and SQL experience." returns
\* matched_skills with "python" and "sql", missing_skills with "fastapi" and "react",
\* a score of about 50.0 (here: within 5.0 of it) and no empty list.
C7_EndToEndScenario ==
    \A h \in Handlers :
        (Done(h) /\ terminal[h] = "Heuristic" /\ request[h] = ScenarioRequest)
        => /\ <<"p","y","t","h","o","n">> \in Range(result[h].matched_skills)
           /\ <<"s","q","l">> \in Range(result[h].matched_skills)
           /\ <<"f","a","s","t","a","p","i">> \in Range(result[h].missing_skills)
           /\ <<"r","e","a","c","t">> \in Range(result[h].missing_skills)
           /\ result[h].score >= 45000 /\ result[h].score <= 55000
           /\ result[h].recommendations # << >>
           /\ result[h].rewritten_bullets # << >>
           /\ result[h].verification_notes # << >>

\* C8: the call to the LLM is issued with a bounded timeout: while llm.invoke is
\* waiting for the service, ai_analysis has a step of its own (the timeout expiring)
\* that ends the wait, whether or not the service ever answers.
C8_BoundedBlocking ==
    \A h \in Handlers : pc[h] = "waiting" => ENABLED <<Program(h)>>_vars

\* C9: under any interleaving of the handlers, a finished heuristic_analysis returned
\* exactly what its own request determines, two handlers with the same request hold the
\* same result, and no step changes OPENAI_API_KEY or STOP_WORDS.
C9_Isolation ==
    /\ [](\A h \in Handlers :
            (Done(h) /\ terminal[h] = "Heuristic") => result[h] = HeuristicOf(h))
    /\ [](\A g, h \in Handlers :
            (Done(g) /\ Done(h) /\ terminal[g] = "Heuristic" /\ terminal[h] = "Heuristic"
                /\ request[g] = request[h])
            => result[g] = result[h])
    /\ [][OPENAI_API_KEY' = OPENAI_API_KEY /\ STOP_WORDS' = STOP_WORDS]_vars

\* C9 witness: handler 1 has finished heuristic_analysis of one request while handler 2
\* is in the middle of heuristic_analysis of another.
C9_Witness ==
    /\ Done(1) /\ terminal[1] = "Heuristic"
    /\ pc[2] = "heur_score"
    /\ request[1] = ScenarioRequest
    /\ request[2] # ScenarioRequest
    /\ result[1] = HeuristicOf(1)
    /\ jd_keywords[2] # jd_keywords[1]

\* The tokens of the lower-cased text that survive the length and stop-word filters.
Surviving(text) ==
    SelectSeq(findall(lower(text)), LAMBDA w : Len(w) > 2 /\ w \notin StopWordsTable)

FirstSeen(s, w) == CHOOSE i \in DOMAIN s : s[i] = w /\ \A k \in 1..(i - 1) : s[k] # w

\* w ranks before v: more frequent, or as frequent and seen first.
RanksBefore(s, w, v) ==
    \/ Occurrences(s, w) > Occurrences(s, v)
    \/ Occurrences(s, w) = Occurrences(s, v) /\ FirstSeen(s, w) < FirstSeen(s, v)

\* C10: extract_keywords returns a duplicate-free sequence of at most max_keywords
\* lower-cased tokens of the text, none of length <= 2, none a stop-word, by descending
\* frequency and, among equals, by first occurrence, and it holds the max_keywords
\* highest-ranked surviving tokens; "Python Python SQL" with bound 5 gives
\* ["python", "sql"], "the and for" with bound 10 and the empty text give [].
C10_KeywordRanking ==
    kw_pc = "ret" =>
        LET s == Surviving(kw_text) IN
        /\ Len(kw_out) <= kw_max
        /\ Len(kw_out) = Min(kw_max, Cardinality(Range(s)))
        /\ \A i, j \in DOMAIN kw_out : i < j => kw_out[i] # kw_out[j]
        /\ \A i \in DOMAIN kw_out :
              /\ kw_out[i] \in Range(s)
              /\ Len(kw_out[i]) > 2
              /\ kw_out[i] \notin StopWordsTable
              /\ \A c \in Range(kw_out[i]) : ~IsUpper(c)
        /\ \A i, j \in DOMAIN kw_out : i < j => RanksBefore(s, kw_out[i], kw_out[j])
        /\ \A w \in Range(s) \ Range(kw_out) :
              \A i \in DOMAIN kw_out : RanksBefore(s, kw_out[i], w)
        /\ kw_text = <<"P","y","t","h","o","n"," ","P","y","t","h","o","n"," ","S","Q","L">> /\ kw_max = 5
              => kw_out = << <<"p","y","t","h","o","n">>, <<"s","q","l">> >>
        /\ kw_text = <<"t","h","e"," ","a","n","d"," ","f","o","r">> /\ kw_max = 10 => kw_out = << >>
        /\ kw_text = << >> => kw_out = << >>

\* C10 witness: extract_keywords("Python Python SQL", 5) has returned ["python", "sql"].
C10_Witness ==
    /\ kw_pc = "ret"
    /\ kw_text = <<"P","y","t","h","o","n"," ","P","y","t","h","o","n"," ","S","Q","L">>
    /\ kw_max = 5
    /\ kw_out = << <<"p","y","t","h","o","n">>, <<"s","q","l">> >>

====
